---- MODULE Spec2Model ----
(***************************************************************************)
(* A model of the file server in src/main.go: the three HTTP handlers      *)
(* listFiles, getFileContent and queryJSON, the path library calls they    *)
(* make (filepath.Join/Clean/Ext/Rel/IsAbs, strings.Contains/HasPrefix/    *)
(* Split/ToLower), the filesystem calls (os.Stat, os.ReadDir, os.ReadFile) *)
(* and the JSON path evaluation loop of queryJSON.                         *)
(*                                                                         *)
(* Strings are sequences of one-character strings, so that substring       *)
(* tests, extensions and the bracket pattern are computed as the code      *)
(* computes them.                                                          *)
(***************************************************************************)
EXTENDS Integers, Sequences, FiniteSets, TLC

(***************************************************************************)
(* Bounds of the model.                                                    *)
(***************************************************************************)
\* At most this many of the optional nodes of NodeUniverse exist in a tree.
MaxNodes == 2
\* Index values are kept exactly below this cap and saturate at it (every
\* array of the model is far shorter); int64 overflow is decided on the
\* digit string itself, see Sscanf_d.
IdxCap == 1000000000

(***************************************************************************)
(* Characters and strings.                                                 *)
(***************************************************************************)
Lower == <<"a","b","c","d","e","f","g","h","i","j","k","l","m",
           "n","o","p","q","r","s","t","u","v","w","x","y","z">>
Upper == <<"A","B","C","D","E","F","G","H","I","J","K","L","M",
           "N","O","P","Q","R","S","T","U","V","W","X","Y","Z">>
Digits == <<"0","1","2","3","4","5","6","7","8","9">>

IndexOf(seq, c) == CHOOSE i \in 1..Len(seq) : seq[i] = c
InSeq(seq, c) == \E i \in 1..Len(seq) : seq[i] = c

\* The byte value of a character (ASCII), which Go's string comparison uses.
Ord(c) ==
  IF InSeq(Lower, c) THEN 96 + IndexOf(Lower, c)
  ELSE IF InSeq(Upper, c) THEN 64 + IndexOf(Upper, c)
  ELSE IF InSeq(Digits, c) THEN 47 + IndexOf(Digits, c)
  ELSE CASE c = "." -> 46
         [] c = "/" -> 47
         [] c = "[" -> 91
         [] c = "]" -> 93
         [] c = "_" -> 95
         [] c = "-" -> 45

IsDigit(c) == InSeq(Digits, c)
DigitVal(c) == IndexOf(Digits, c) - 1

\* Go's s < t on strings: byte-wise lexicographic.
RECURSIVE StrLess(_, _)
StrLess(s, t) ==
  IF t = <<>> THEN FALSE
  ELSE IF s = <<>> THEN TRUE
  ELSE IF s[1] # t[1] THEN Ord(s[1]) < Ord(t[1])
  ELSE StrLess(Tail(s), Tail(t))

\* strings.ToLower on the ASCII letters of the model.
ToLowerChar(c) == IF InSeq(Upper, c) THEN Lower[IndexOf(Upper, c)] ELSE c
ToLower(s) == [i \in 1..Len(s) |-> ToLowerChar(s[i])]

\* strings.HasPrefix(s, prefix)
HasPrefix(s, prefix) ==
  Len(s) >= Len(prefix) /\ SubSeq(s, 1, Len(prefix)) = prefix

\* strings.Contains(s, substr)
Contains(s, substr) ==
  \E i \in 1..(Len(s) - Len(substr) + 1) :
     SubSeq(s, i, i + Len(substr) - 1) = substr

\* strings.Split(s, sep) for a one-character separator: always at least one
\* part, and an empty string gives one empty part.
RECURSIVE SplitFrom(_, _, _)
SplitFrom(s, sep, cur) ==
  IF s = <<>> THEN <<cur>>
  ELSE IF s[1] = sep THEN <<cur>> \o SplitFrom(Tail(s), sep, <<>>)
  ELSE SplitFrom(Tail(s), sep, Append(cur, s[1]))
Split(s, sep) == SplitFrom(s, sep, <<>>)

\* strings.Join(parts, sep)
RECURSIVE JoinWith(_, _)
JoinWith(parts, sep) ==
  IF parts = <<>> THEN <<>>
  ELSE IF Len(parts) = 1 THEN parts[1]
  ELSE parts[1] \o sep \o JoinWith(Tail(parts), sep)

\* The non-empty strings of parts, in order.
RECURSIVE NonEmptyOnly(_)
NonEmptyOnly(parts) ==
  IF parts = <<>> THEN <<>>
  ELSE IF parts[1] = <<>> THEN NonEmptyOnly(Tail(parts))
  ELSE <<parts[1]>> \o NonEmptyOnly(Tail(parts))

(***************************************************************************)
(* path/filepath on a Unix system (separator "/").                         *)
(***************************************************************************)
Slash == <<"/">>
Dot == <<".">>
DotDot == <<".", ".">>

\* filepath.IsAbs
IsAbs(path) == HasPrefix(path, Slash)

\* The element stack of filepath.Clean: "." and empty elements are dropped,
\* ".." removes the element before it, is dropped at the root of a rooted
\* path, and is kept at the front of a relative one.
RECURSIVE CleanElems(_, _, _)
CleanElems(elems, rooted, stack) ==
  IF elems = <<>> THEN stack
  ELSE LET e == elems[1]
           rest == Tail(elems)
       IN IF e = <<>> \/ e = Dot THEN CleanElems(rest, rooted, stack)
          ELSE IF e = DotDot
               THEN IF stack # <<>> /\ stack[Len(stack)] # DotDot
                    THEN CleanElems(rest, rooted, SubSeq(stack, 1, Len(stack) - 1))
                    ELSE IF rooted THEN CleanElems(rest, rooted, stack)
                    ELSE CleanElems(rest, rooted, Append(stack, e))
               ELSE CleanElems(rest, rooted, Append(stack, e))

\* The cleaned path of an element stack.
CleanResult(rooted, stack) ==
  IF rooted THEN Slash \o JoinWith(stack, Slash)
  ELSE IF stack = <<>> THEN Dot
  ELSE JoinWith(stack, Slash)

\* filepath.Clean
Clean(path) ==
  IF path = <<>> THEN Dot
  ELSE CleanResult(IsAbs(path), CleanElems(Split(path, "/"), IsAbs(path), <<>>))

\* filepath.Join(elems...): empty elements are ignored, the rest are joined
\* with "/" and the result is cleaned; all empty gives "".
JoinNonEmpty(ne) == IF ne = <<>> THEN <<>> ELSE Clean(JoinWith(ne, Slash))
Join(elems) == JoinNonEmpty(NonEmptyOnly(elems))

\* filepath.Ext: the suffix from the last "." of the last element, or "".
RECURSIVE ExtFrom(_, _)
ExtFrom(path, i) ==
  IF i < 1 \/ path[i] = "/" THEN <<>>
  ELSE IF path[i] = "." THEN SubSeq(path, i, Len(path))
  ELSE ExtFrom(path, i - 1)
Ext(path) == ExtFrom(path, Len(path))

\* The elements of a cleaned path (none for "/" and for ".").
ElemsOfClean(c) == IF c = Dot THEN <<>> ELSE NonEmptyOnly(Split(c, "/"))
PathElems(path) == ElemsOfClean(Clean(path))

RECURSIVE CommonPrefixLen(_, _)
CommonPrefixLen(a, b) ==
  IF a = <<>> \/ b = <<>> \/ a[1] # b[1] THEN 0
  ELSE 1 + CommonPrefixLen(Tail(a), Tail(b))

DropFirst(seq, n) == SubSeq(seq, n + 1, Len(seq))
RepeatDotDot(n) == [i \in 1..n |-> DotDot]

\* filepath.Rel(basepath, targpath): [ok, path]. Both cleaned; "." when they
\* are equal; an error when only one is rooted or when the part of base left
\* after the common prefix starts with ".."; else one ".." per element left
\* of base, then what is left of targ.
RelRest(bRest, tRest) ==
  IF bRest # <<>> /\ bRest[1] = DotDot THEN [ok |-> FALSE, path |-> <<>>]
  ELSE [ok |-> TRUE, path |-> JoinWith(RepeatDotDot(Len(bRest)) \o tRest, Slash)]

RelElems(be, te) ==
  RelRest(DropFirst(be, CommonPrefixLen(be, te)), DropFirst(te, CommonPrefixLen(be, te)))

RelClean(base, targ) ==
  IF targ = base THEN [ok |-> TRUE, path |-> Dot]
  ELSE IF IsAbs(base) # IsAbs(targ) THEN [ok |-> FALSE, path |-> <<>>]
  ELSE RelElems(ElemsOfClean(base), ElemsOfClean(targ))

Rel(basepath, targpath) == RelClean(Clean(basepath), Clean(targpath))

(***************************************************************************)
(* Names used by the code and by the trees of the model.                   *)
(***************************************************************************)
sEmpty == <<>>
ExtMd == <<".","m","d">>
ExtJson == <<".","j","s","o","n">>
NodeModules == <<"n","o","d","e","_","m","o","d","u","l","e","s">>
BuildName == <<"b","u","i","l","d">>
DistName == <<"d","i","s","t">>

nA == <<"a",".","m","d">>
nADots == <<"a",".",".","m","d">>
nHidden == <<".","h",".","m","d">>
nTxt == <<"b",".","t","x","t">>
nZ == <<"Z",".","J","S","O","N">>
nQ == <<"q",".","j","s","o","n">>
nS == <<"s",".","j","s","o","n">>
nX == <<"x",".","m","d">>
nC == <<"c",".","m","d">>
nD == <<"d">>
nG == <<".","g">>
nSub == <<"s">>
nP == <<"p">>
nW == <<"w">>

\* The directory the server was started in, the root it serves.
BaseDir == Slash \o nW

AbsPath(elems) == Slash \o JoinWith(elems, Slash)

(***************************************************************************)
(* The filesystem: a function from the cleaned absolute path of every node *)
(* to [kind, data]. A tree holds "/", the working directory, and at most   *)
(* MaxNodes of the optional nodes below together with their ancestors.     *)
(* data is the byte content of a file, kept as one token.                  *)
(***************************************************************************)
NodeUniverse == <<
  [path |-> AbsPath(<<nW, nA>>),                  kind |-> "file", data |-> "# a"],
  [path |-> AbsPath(<<nW, nADots>>),              kind |-> "file", data |-> "# dots"],
  [path |-> AbsPath(<<nW, nHidden>>),             kind |-> "file", data |-> "# hidden"],
  [path |-> AbsPath(<<nW, nTxt>>),                kind |-> "file", data |-> "text"],
  [path |-> AbsPath(<<nW, nZ>>),                  kind |-> "file", data |-> "{\"a\":{\"b\":[1,2,3]}}"],
  [path |-> AbsPath(<<nW, nD, nA>>),              kind |-> "file", data |-> "# d/a"],
  [path |-> AbsPath(<<nW, nD, nHidden>>),         kind |-> "file", data |-> "# d/hidden"],
  [path |-> AbsPath(<<nW, nD, nQ>>),              kind |-> "file", data |-> "{\"a\":1}"],
  [path |-> AbsPath(<<nW, nG, nA>>),              kind |-> "file", data |-> "# .g/a"],
  [path |-> AbsPath(<<nW, nD, nSub, nC>>),        kind |-> "file", data |-> "# d/s/c"],
  [path |-> AbsPath(<<nW, NodeModules, nP, nX>>), kind |-> "file", data |-> "# nm/p/x"],
  [path |-> AbsPath(<<nW, BuildName, nX>>),       kind |-> "file", data |-> "# build/x"],
  [path |-> AbsPath(<<nW, DistName, nX>>),        kind |-> "file", data |-> "# dist/x"],
  [path |-> AbsPath(<<nS>>),                      kind |-> "file", data |-> "{\"k\":5}"],
  [path |-> AbsPath(<<nW, nA>>),                  kind |-> "dir",  data |-> ""]
>>

\* The proper ancestors of a path with these elements, "/" included.
AncestorsOfElems(e) == { AbsPath(SubSeq(e, 1, k)) : k \in 0..(Len(e) - 1) }
Ancestors(path) == AncestorsOfElems(PathElems(path))

\* No path is chosen both as a file and as a directory.
Consistent(S) ==
  \A i \in S, j \in S :
     NodeUniverse[i].path = NodeUniverse[j].path => i = j

NodeAt(S, p) == NodeUniverse[CHOOSE i \in S : NodeUniverse[i].path = p]

TreeOf(S, chosen, dirs) ==
  [p \in chosen \cup dirs |->
     IF p \in chosen
     THEN [kind |-> NodeAt(S, p).kind, data |-> NodeAt(S, p).data]
     ELSE [kind |-> "dir", data |-> ""]]

FsOf(S) ==
  TreeOf(S, { NodeUniverse[i].path : i \in S },
         {Slash, BaseDir} \cup UNION { Ancestors(NodeUniverse[i].path) : i \in S })

Trees ==
  { FsOf(S) : S \in { T \in SUBSET (1..Len(NodeUniverse)) :
                        Cardinality(T) <= MaxNodes /\ Consistent(T) } }

\* The kernel's path walk from the node cur: an element is looked up only in
\* a directory (ENOTDIR otherwise), "" and "." stay, ".." goes to the parent,
\* a missing child is ENOENT.
StepFrom(cur, e) ==
  IF e = <<>> \/ e = Dot THEN cur ELSE Clean(cur \o Slash \o e)

RECURSIVE Walk(_, _, _)
RECURSIVE WalkTo(_, _, _)
WalkTo(f, nxt, rest) ==
  IF nxt \notin DOMAIN f THEN [err |-> "ENOENT", path |-> nxt]
  ELSE Walk(f, nxt, rest)

Walk(f, cur, elems) ==
  IF elems = <<>> THEN [err |-> "nil", path |-> cur]
  ELSE IF f[cur].kind # "dir" THEN [err |-> "ENOTDIR", path |-> cur]
  ELSE WalkTo(f, StepFrom(cur, elems[1]), Tail(elems))

Lookup(f, path) ==
  Walk(f, IF IsAbs(path) THEN Slash ELSE BaseDir, Split(path, "/"))

\* os.Stat(path): [err, isDir]
StatOf(f, w) ==
  [err |-> w.err,
   isDir |-> IF w.err = "nil" THEN f[w.path].kind = "dir" ELSE FALSE]
Stat(f, path) == StatOf(f, Lookup(f, path))

\* os.IsNotExist(err)
IsNotExist(err) == err = "ENOENT"

\* os.Getwd(): [err, dir]. The call fails once the working directory has
\* been removed.
Getwd(f) ==
  IF BaseDir \in DOMAIN f THEN [err |-> "nil", dir |-> BaseDir]
  ELSE [err |-> "ENOENT", dir |-> <<>>]

Last(seq) == seq[Len(seq)]

\* The last element of a cleaned absolute path.
BaseName(path) == Last(Split(path, "/"))

\* The directory holding a node other than "/".
ParentOf(path) == Clean(path \o Slash \o DotDot)

PickMin(S) == CHOOSE a \in S : \A b \in S : a = b \/ StrLess(a, b)

RECURSIVE SortNames(_)
RECURSIVE SortNamesFrom(_, _)
SortNamesFrom(S, m) == <<m>> \o SortNames(S \ {m})
SortNames(S) == IF S = {} THEN <<>> ELSE SortNamesFrom(S, PickMin(S))

\* The children of directory dirPath as DirEntry values in the order given.
EntriesOf(f, dirPath, names) ==
  [i \in 1..Len(names) |->
     [name |-> names[i],
      isDir |-> f[Clean(dirPath \o Slash \o names[i])].kind = "dir"]]

ChildNames(f, dirPath) ==
  { BaseName(q) : q \in { c \in DOMAIN f : c # Slash /\ ParentOf(c) = dirPath } }

\* os.ReadDir(path): [err, entries], the entries sorted by file name, each
\* with Name() and IsDir().
ReadDirOf(f, w) ==
  IF w.err # "nil" THEN [err |-> w.err, entries |-> <<>>]
  ELSE IF f[w.path].kind # "dir" THEN [err |-> "ENOTDIR", entries |-> <<>>]
  ELSE [err |-> "nil",
        entries |-> EntriesOf(f, w.path, SortNames(ChildNames(f, w.path)))]
ReadDir(f, path) == ReadDirOf(f, Lookup(f, path))

\* os.ReadFile(path): [err, data]
ReadFileOf(f, w) ==
  IF w.err # "nil" THEN [err |-> w.err, data |-> ""]
  ELSE IF f[w.path].kind = "dir" THEN [err |-> "EISDIR", data |-> ""]
  ELSE [err |-> "nil", data |-> f[w.path].data]
ReadFile(f, path) == ReadFileOf(f, Lookup(f, path))

(***************************************************************************)
(* State. fs is the filesystem the server runs on; config is the global    *)
(* Config set by main; pc tells whether the server waits for a request or  *)
(* has just answered one; req is the request and resp what its handler     *)
(* wrote, together with two observations of the handler's run: resolved,   *)
(* the handler's resolvedPath, and read, the path handed to os.ReadFile.   *)
(* scan holds the local variables of a listFiles run that is followed      *)
(* call by call, run the position and local variables of a content or      *)
(* query handler that is followed statement by statement, res the local    *)
(* variables of its path resolution, and conns the handler goroutines that *)
(* wait while another one runs; each stays at its initial value in the     *)
(* specifications that do not follow it.                                   *)
(***************************************************************************)
VARIABLES fs, config, pc, req, resp, scan, conns, run, res

vars == <<fs, config, pc, req, resp, scan, conns, run, res>>

\* main: the configuration every handler reads.
InitialConfig ==
  [AllowedExts |-> <<ExtMd, ExtJson>>, IgnoreHidden |-> TRUE]

StatusOK == 200
StatusBadRequest == 400
StatusNotFound == 404
StatusInternalServerError == 500

NoReq == [op |-> "none", file |-> <<>>, dir |-> <<>>, path |-> <<>>]

\* A JSON value: t is its kind, n the number or boolean, s the string,
\* kv the members of an object ([k, v] each) or the elements of an array
\* ([k |-> "", v] each).
JNull == [t |-> "null", n |-> 0, s |-> <<>>, kv |-> <<>>]
JNum(i) == [t |-> "number", n |-> i, s |-> <<>>, kv |-> <<>>]
JStr(str) == [t |-> "string", n |-> 0, s |-> str, kv |-> <<>>]
JBool(b) == [t |-> "bool", n |-> IF b THEN 1 ELSE 0, s |-> <<>>, kv |-> <<>>]
JArr(elems) ==
  [t |-> "array", n |-> 0, s |-> <<>>,
   kv |-> [i \in 1..Len(elems) |-> [k |-> <<>>, v |-> elems[i]]]]
JObj(members) == [t |-> "object", n |-> 0, s |-> <<>>, kv |-> members]
Member(key, val) == [k |-> key, v |-> val]

\* What a handler wrote: status and message of http.Error, or 200 with the
\* Content-Type header and one of data (file bytes), value (the query
\* result that json.Marshal encodes) and entries (the listing).
Response(status, msg) ==
  [status |-> status, msg |-> msg, ctype |-> "", data |-> "", value |-> JNull,
   entries |-> <<>>, resolved |-> <<>>, read |-> <<>>]

NoResp == Response(0, "")

\* No listFiles run is followed.
NoScan == [rootDir |-> <<>>, pending |-> <<>>, phase |-> "none",
           kept |-> <<>>, lost |-> {}]

\* No requests are served at the same time.
NoConns == <<>>

\* No path resolution is followed.
NoRes == [phase |-> "none", paths |-> <<>>, first |-> <<>>, resolved |-> <<>>,
          retried |-> FALSE, byRetry |-> FALSE, created |-> {}]

\* No handler is followed statement by statement.
NoRun ==
  [pos |-> "none", filePath |-> <<>>, isDir |-> FALSE, data |-> "",
   result |-> JNull, parts |-> <<>>, writes |-> 0, late |-> 0]

\* ext is one of config.AllowedExts (the loops at lines 205 and 397).
IsAllowedExt(cfg, ext) ==
  \E i \in 1..Len(cfg.AllowedExts) : cfg.AllowedExts[i] = ext

(***************************************************************************)
(* listFiles                                                               *)
(***************************************************************************)
\* The directory listFiles lists for the dir parameter.
ListRoot(requestedDir) ==
  IF requestedDir = <<>> \/ requestedDir = Dot THEN BaseDir
  ELSE IF IsAbs(requestedDir) THEN requestedDir
  ELSE Join(<<BaseDir, requestedDir>>)

\* Mutant of HasRelevantIn: hidden files of the subdirectory do not count.
HasRelevantVisible(cfg, sub) ==
  /\ sub.err = "nil"
  /\ \E i \in 1..Len(sub.entries) :
        /\ ~sub.entries[i].isDir
        /\ ~HasPrefix(sub.entries[i].name, Dot)
        /\ IsAllowedExt(cfg, ToLower(Ext(sub.entries[i].name)))

\* The quick one-level check of a subdirectory: it has a non-directory
\* child with an allowed extension; an unreadable subdirectory has none.
HasRelevantIn(cfg, sub) ==
  /\ sub.err = "nil"
  /\ \E i \in 1..Len(sub.entries) :
        /\ ~sub.entries[i].isDir
        /\ IsAllowedExt(cfg, ToLower(Ext(sub.entries[i].name)))
HasRelevantFiles(f, cfg, entryPath) == HasRelevantIn(cfg, ReadDir(f, entryPath))

\* The skip for build and dependency directories (it reads the whole path).
IsBuildDir(entry, entryPath) ==
  /\ entry.isDir
  /\ \/ entry.name = NodeModules
     \/ Contains(entryPath, NodeModules)
     \/ entry.name = BuildName
     \/ entry.name = DistName

\* Mutant of FileKept: the extension is compared without lower-casing.
FileKeptCaseSensitive(cfg, entry) ==
  ~entry.isDir => IsAllowedExt(cfg, Ext(entry.name))

\* The file branch of the loop body: only allowed extensions are kept.
FileKept(cfg, entry) ==
  ~entry.isDir => IsAllowedExt(cfg, ToLower(Ext(entry.name)))

\* The hidden-entry skip at the top of the loop body.
IsHidden(cfg, entry) == cfg.IgnoreHidden /\ HasPrefix(entry.name, Dot)

\* The loop body of listFiles says whether the entry is added to the list.
KeepEntryAt(f, cfg, rootDir, entry, entryPath) ==
  /\ ~IsHidden(cfg, entry)
  /\ ~IsBuildDir(entry, entryPath)
  /\ FileKept(cfg, entry)
  /\ (entry.isDir => HasRelevantFiles(f, cfg, entryPath))
  /\ Rel(rootDir, entryPath).ok
KeepEntry(f, cfg, rootDir, entry) ==
  KeepEntryAt(f, cfg, rootDir, entry, Join(<<rootDir, entry.name>>))

\* The FileInfo of a kept entry (Size and ModTime are not modelled).
FileInfoOf(rootDir, entry) ==
  [name |-> entry.name,
   path |-> Rel(rootDir, Join(<<rootDir, entry.name>>)).path,
   isDir |-> entry.isDir]

RECURSIVE CollectEntries(_, _, _, _)
CollectEntries(f, cfg, rootDir, entries) ==
  IF entries = <<>> THEN <<>>
  ELSE (IF KeepEntry(f, cfg, rootDir, entries[1])
        THEN <<FileInfoOf(rootDir, entries[1])>> ELSE <<>>)
       \o CollectEntries(f, cfg, rootDir, Tail(entries))

\* Mutant of ListLess: names are compared without regard to case.
ListLessFoldCase(a, b) ==
  IF a.isDir # b.isDir THEN a.isDir ELSE StrLess(ToLower(a.name), ToLower(b.name))

\* The less function of the sort: directories first, then by name.
ListLess(a, b) ==
  IF a.isDir # b.isDir THEN a.isDir ELSE StrLess(a.name, b.name)

\* sort.Slice(currentDirFiles, less): names in one directory are distinct,
\* so the order is total and the sorted list is unique.
RECURSIVE InsertSorted(_, _)
InsertSorted(sorted, e) ==
  IF sorted = <<>> THEN <<e>>
  ELSE IF ListLess(e, sorted[1]) THEN <<e>> \o sorted
  ELSE <<sorted[1]>> \o InsertSorted(Tail(sorted), e)

RECURSIVE SortFiles(_)
SortFiles(list) ==
  IF list = <<>> THEN <<>>
  ELSE InsertSorted(SortFiles(SubSeq(list, 1, Len(list) - 1)), Last(list))

\* listFiles from os.ReadDir(rootDir) on.
listEntries(f, cfg, rootDir, rd) ==
  IF rd.err # "nil" THEN Response(StatusInternalServerError, rd.err)
  ELSE [Response(StatusOK, "") EXCEPT
          !.ctype = "application/json",
          !.entries = SortFiles(CollectEntries(f, cfg, rootDir, rd.entries))]

\* listFiles from the validation of rootDir on.
listValidated(f, cfg, rootDir, st) ==
  IF st.err # "nil"
  THEN IF IsNotExist(st.err)
       THEN Response(StatusNotFound, "Directory not found")
       ELSE Response(StatusInternalServerError, st.err)
  ELSE IF ~st.isDir THEN Response(StatusBadRequest, "Not a directory")
  ELSE listEntries(f, cfg, rootDir, ReadDir(f, rootDir))

listRoot(f, cfg, rootDir) == listValidated(f, cfg, rootDir, Stat(f, rootDir))

\* The response of listFiles to GET /api/files?dir=requestedDir.
listFilesResp(f, cfg, requestedDir) ==
  IF Getwd(f).err # "nil"
  THEN Response(StatusInternalServerError, Getwd(f).err)
  ELSE listRoot(f, cfg, ListRoot(requestedDir))

(***************************************************************************)
(* Path resolution, the same code in getFileContent and in queryJSON.      *)
(***************************************************************************)
\* Mutant of SubDirCandidates: hidden subdirectories are left out.
RECURSIVE SubDirCandidatesVisible(_, _)
SubDirCandidatesVisible(entries, requestedFile) ==
  IF entries = <<>> THEN <<>>
  ELSE (IF entries[1].isDir /\ ~HasPrefix(entries[1].name, Dot)
        THEN <<Join(<<BaseDir, entries[1].name, requestedFile>>)>> ELSE <<>>)
       \o SubDirCandidatesVisible(Tail(entries), requestedFile)

\* The candidates root/D/name, D each directory entry of the root in the
\* order os.ReadDir returns them.
RECURSIVE SubDirCandidates(_, _)
SubDirCandidates(entries, requestedFile) ==
  IF entries = <<>> THEN <<>>
  ELSE (IF entries[1].isDir
        THEN <<Join(<<BaseDir, entries[1].name, requestedFile>>)>> ELSE <<>>)
       \o SubDirCandidates(Tail(entries), requestedFile)

SubDirPaths(rd, requestedFile) ==
  IF rd.err = "nil" THEN SubDirCandidates(rd.entries, requestedFile) ELSE <<>>

\* Mutant of FilePaths: with a dir parameter, root/name is not a candidate.
FilePathsHintOnly(f, requestedFile, requestedDir) ==
  IF requestedDir # <<>>
  THEN <<Join(<<BaseDir, requestedDir, requestedFile>>)>>
  ELSE <<Join(<<BaseDir, requestedFile>>)>>
       \o (IF ~Contains(requestedFile, Slash)
           THEN SubDirPaths(ReadDir(f, BaseDir), requestedFile)
           ELSE <<>>)

\* filePaths, the ordered list of candidate paths.
FilePaths(f, requestedFile, requestedDir) ==
  (IF requestedDir # <<>>
   THEN <<Join(<<BaseDir, requestedDir, requestedFile>>)>> ELSE <<>>)
  \o <<Join(<<BaseDir, requestedFile>>)>>
  \o (IF ~Contains(requestedFile, Slash)
      THEN SubDirPaths(ReadDir(f, BaseDir), requestedFile)
      ELSE <<>>)

\* Mutant of StatMatches: the test for a directory is left out.
StatMatchesAnyKind(st) == st.err = "nil"

\* A candidate matches when os.Stat succeeds and it is not a directory.
StatMatches(st) == st.err = "nil" /\ ~st.isDir
Matches(f, path) == StatMatches(Stat(f, path))

\* The loop over filePaths: the first candidate that matches, else "".
RECURSIVE FirstMatch(_, _)
FirstMatch(f, paths) ==
  IF paths = <<>> THEN <<>>
  ELSE IF Matches(f, paths[1]) THEN paths[1]
  ELSE FirstMatch(f, Tail(paths))

\* The retry after the loop: for a name with a separator, root/name again.
RetryFullPath(f, requestedFile, first, fullPath) ==
  IF first = <<>> /\ Contains(requestedFile, Slash) /\ Matches(f, fullPath)
  THEN fullPath
  ELSE first

\* resolvedPath: the first match, or the retry's, or "" when nothing
\* resolved.
ResolvePath(f, requestedFile, requestedDir) ==
  RetryFullPath(f, requestedFile,
                FirstMatch(f, FilePaths(f, requestedFile, requestedDir)),
                Join(<<BaseDir, requestedFile>>))

\* Mutant of HasTraversalToken: only a ".." followed by a separator counts.
HasTraversalElement(filePath) == Contains(filePath, DotDot \o Slash)

\* The security check on the resolved path string.
HasTraversalToken(filePath) == Contains(filePath, DotDot)

\* The response with the handler's resolved path noted.
Resolved(r, filePath) == [r EXCEPT !.resolved = filePath]
\* The response with the path os.ReadFile was called on noted.
DidRead(r, filePath) == [r EXCEPT !.resolved = filePath, !.read = filePath]

(***************************************************************************)
(* getFileContent                                                          *)
(***************************************************************************)
ContentType(ext) ==
  IF ext = ExtJson THEN "application/json"
  ELSE IF ext = ExtMd THEN "text/plain" ELSE ""

\* getFileContent from os.ReadFile on.
contentRead(filePath, ext, rf) ==
  IF rf.err # "nil"
  THEN DidRead(Response(StatusInternalServerError, rf.err), filePath)
  ELSE DidRead([Response(StatusOK, "") EXCEPT
                  !.ctype = ContentType(ext), !.data = rf.data], filePath)

\* Mutant of contentChecked: the file is read whatever its extension.
contentCheckedAnyExt(f, cfg, filePath, ext) ==
  contentRead(filePath, ext, ReadFile(f, filePath))

\* getFileContent from the extension check on.
contentChecked(f, cfg, filePath, ext) ==
  IF ~IsAllowedExt(cfg, ext)
  THEN Resolved(Response(StatusBadRequest, "Unsupported file type"), filePath)
  ELSE contentRead(filePath, ext, ReadFile(f, filePath))

\* getFileContent from the second os.Stat on.
contentStat(f, cfg, filePath, st) ==
  IF st.err # "nil"
  THEN IF IsNotExist(st.err)
       THEN Resolved(Response(StatusNotFound, "File not found"), filePath)
       ELSE Resolved(Response(StatusInternalServerError, st.err), filePath)
  ELSE IF st.isDir
  THEN Resolved(Response(StatusBadRequest, "Cannot display directory content"), filePath)
  ELSE contentChecked(f, cfg, filePath, ToLower(Ext(filePath)))

\* getFileContent once resolvedPath is known.
contentResolved(f, cfg, filePath) ==
  IF filePath = <<>> THEN Response(StatusNotFound, "File not found")
  ELSE IF HasTraversalToken(filePath)
  THEN Resolved(Response(StatusBadRequest, "Invalid file path"), filePath)
  ELSE contentStat(f, cfg, filePath, Stat(f, filePath))

\* The response of getFileContent to GET /api/content/requestedFile?dir=.
getFileContentResp(f, cfg, requestedFile, requestedDir) ==
  IF Getwd(f).err # "nil"
  THEN Response(StatusInternalServerError, Getwd(f).err)
  ELSE contentResolved(f, cfg, ResolvePath(f, requestedFile, requestedDir))

(***************************************************************************)
(* queryJSON: decoding, the path evaluation loop, the handler.             *)
(***************************************************************************)
\* json.Unmarshal(data, &jsonData) on the file contents of the model:
\* [ok, value]. Every other content is not JSON.
Unmarshal(data) ==
  CASE data = "{\"a\":1}" ->
         [ok |-> TRUE, value |-> JObj(<<Member(<<"a">>, JNum(1))>>)]
    [] data = "5" -> [ok |-> TRUE, value |-> JNum(5)]
    [] data = "null" -> [ok |-> TRUE, value |-> JNull]
    [] data = "\"s\"" -> [ok |-> TRUE, value |-> JStr(<<"s">>)]
    [] data = "true" -> [ok |-> TRUE, value |-> JBool(TRUE)]
    [] data = "[1,2]" -> [ok |-> TRUE, value |-> JArr(<<JNum(1), JNum(2)>>)]
    [] data = "{\"a\":{\"b\":[1,2,3]}}" ->
         [ok |-> TRUE,
          value |-> JObj(<<Member(<<"a">>,
                       JObj(<<Member(<<"b">>, JArr(<<JNum(1), JNum(2), JNum(3)>>))>>))>>)]
    [] data = "{\"k[0]\":[1,2]}" ->
         [ok |-> TRUE,
          value |-> JObj(<<Member(<<"k","[","0","]">>, JArr(<<JNum(1), JNum(2)>>))>>)]
    [] data = "{\"a\":[[7,8]]}" ->
         [ok |-> TRUE,
          value |-> JObj(<<Member(<<"a">>, JArr(<<JArr(<<JNum(7), JNum(8)>>)>>))>>)]
    [] data = "{\"\":3,\"a\":null}" ->
         [ok |-> TRUE,
          value |-> JObj(<<Member(<<>>, JNum(3)), Member(<<"a">>, JNull)>>)]
    [] data = "{\"k\":5}" ->
         [ok |-> TRUE, value |-> JObj(<<Member(<<"k">>, JNum(5))>>)]
    [] OTHER -> [ok |-> FALSE, value |-> JNull]

\* m[key] on a decoded object: the member's value, nil (null) when absent.
MapGet(obj, key) ==
  IF \E i \in 1..Len(obj.kv) : obj.kv[i].k = key
  THEN obj.kv[CHOOSE i \in 1..Len(obj.kv) : obj.kv[i].k = key].v
  ELSE JNull

\* The number of digits of part from position i on.
RECURSIVE DigitRun(_, _)
DigitRun(part, i) ==
  IF i <= Len(part) /\ IsDigit(part[i]) THEN 1 + DigitRun(part, i + 1) ELSE 0

\* part has "[", n >= 1 digits, "]" starting at position i.
BracketRun(part, i, n) ==
  /\ part[i] = "["
  /\ n >= 1
  /\ i + 1 + n <= Len(part)
  /\ part[i + 1 + n] = "]"
BracketAt(part, i) == BracketRun(part, i, DigitRun(part, i + 1))

\* The groups of the match whose bracket group starts at i and has n digits.
GroupsAt(part, i, n) ==
  [matched |-> TRUE,
   objKey |-> SubSeq(part, 1, i - 1),
   idxStr |-> SubSeq(part, i + 1, i + n),
   restPath |-> SubSeq(part, i + n + 2, Len(part))]

MaxOf(S) == CHOOSE a \in S : \A b \in S : b <= a
GroupsFrom(part, i) == GroupsAt(part, i, DigitRun(part, i + 1))

MatchAmong(part, at) ==
  IF at = {}
  THEN [matched |-> FALSE, objKey |-> <<>>, idxStr |-> <<>>, restPath |-> <<>>]
  ELSE GroupsFrom(part, MaxOf(at))

\* The match of (.*)\[(\d+)\](.*) that starts at the beginning of a line:
\* the first group is greedy, so the bracket group matched is the last one
\* of the line; the groups are the text before it, its digits, and the text
\* after it.
MatchLine(line) ==
  MatchAmong(line, { i \in 1..Len(line) : BracketAt(line, i) })

\* The leftmost match: "." does not match a line break, so a match lies
\* within one line, and the first line with a bracket group holds it.
RECURSIVE FirstLineMatch(_)
FirstLineMatch(lines) ==
  IF lines = <<>> THEN MatchAmong(<<>>, {})
  ELSE IF MatchLine(Head(lines)).matched THEN MatchLine(Head(lines))
  ELSE FirstLineMatch(Tail(lines))

\* arrayIndexRegex.FindStringSubmatch(part): the groups of the leftmost
\* match of the unanchored pattern in part.
ArrayMatches(part) == FirstLineMatch(Split(part, "\n"))

RECURSIVE StripZeros(_)
StripZeros(ds) ==
  IF Len(ds) > 1 /\ ds[1] = "0" THEN StripZeros(Tail(ds)) ELSE ds

\* math.MaxInt64 = 9223372036854775807, as its digits.
MaxInt64Digits ==
  <<"9","2","2","3","3","7","2","0","3","6","8","5","4","7","7","5","8","0","7">>

\* The significant digits do not fit an int (64 bits).
TooBig(sig) ==
  \/ Len(sig) > Len(MaxInt64Digits)
  \/ Len(sig) = Len(MaxInt64Digits) /\ StrLess(MaxInt64Digits, sig)
OverflowsInt(ds) == TooBig(StripZeros(ds))

RECURSIVE DecimalValue(_, _)
DecimalValue(ds, acc) ==
  IF ds = <<>> THEN acc
  ELSE IF acc > (IdxCap - DigitVal(ds[1])) \div 10 THEN IdxCap
  ELSE DecimalValue(Tail(ds), acc * 10 + DigitVal(ds[1]))

\* idx := 0; fmt.Sscanf(idxStr, "%d", &idx) with the error ignored: the value
\* of the digits, and idx left at 0 when they overflow the int.
Sscanf_d(idxStr) ==
  IF OverflowsInt(idxStr) THEN 0 ELSE DecimalValue(StripZeros(idxStr), 0)

EvalOk(v) == [status |-> StatusOK, msg |-> "", value |-> v]
EvalErr(msg) == [status |-> StatusBadRequest, msg |-> msg, value |-> JNull]

\* The element access and the check of the remainder after the bracket.
IndexInto(arr, idx, restPath) ==
  IF arr.t # "array" THEN EvalErr("Cannot index - not an array")
  ELSE IF ~(idx >= 0 /\ idx < Len(arr.kv)) THEN EvalErr("Array index out of bounds")
  ELSE IF restPath # <<>> THEN EvalErr("Complex array paths not supported")
  ELSE EvalOk(arr.kv[idx + 1].v)

\* The array access branch of the loop body for one matched part.
EvalArrayAccess(result, m) ==
  IF m.objKey # <<>> /\ result.t # "object"
  THEN EvalErr("Cannot access property - not an object")
  ELSE IndexInto(IF m.objKey # <<>> THEN MapGet(result, m.objKey) ELSE result,
                 Sscanf_d(m.idxStr), m.restPath)

\* Mutant of EvalProperty: a missing key is an error.
EvalPropertyStrict(result, part) ==
  IF result.t # "object"
  THEN [status |-> StatusBadRequest,
        msg |-> "Cannot access property - not an object", value |-> JNull]
  ELSE IF \A i \in 1..Len(result.kv) : result.kv[i].k # part
  THEN [status |-> StatusBadRequest, msg |-> "No such property", value |-> JNull]
  ELSE [status |-> StatusOK, msg |-> "", value |-> MapGet(result, part)]

\* The property access branch of the loop body.
EvalProperty(result, part) ==
  IF result.t = "object" THEN EvalOk(MapGet(result, part))
  ELSE EvalErr("Cannot access property - not an object")

\* The loop body: result narrowed by one part of the path, or an error.
EvalMatched(result, part, m) ==
  IF m.matched THEN EvalArrayAccess(result, m) ELSE EvalProperty(result, part)
EvalPart(result, part) == EvalMatched(result, part, ArrayMatches(part))

\* The loop over the parts, left to right, stopping at the first error.
RECURSIVE EvalParts(_, _)
RECURSIVE EvalRest(_, _)
EvalRest(r, rest) == IF r.status # StatusOK THEN r ELSE EvalParts(r.value, rest)
EvalParts(result, parts) ==
  IF parts = <<>> THEN EvalOk(result)
  ELSE EvalRest(EvalPart(result, parts[1]), Tail(parts))

\* The evaluation of jsonPath on the decoded document.
Evaluate(jsonData, jsonPath) == EvalParts(jsonData, Split(jsonPath, "."))

\* queryJSON from the result of the evaluation on.
queryResult(filePath, ev) ==
  IF ev.status # StatusOK THEN DidRead(Response(ev.status, ev.msg), filePath)
  ELSE DidRead([Response(StatusOK, "") EXCEPT
                  !.ctype = "application/json", !.value = ev.value], filePath)

\* queryJSON from json.Unmarshal on.
queryDecoded(filePath, jsonPath, doc) ==
  IF ~doc.ok THEN DidRead(Response(StatusBadRequest, "Invalid JSON"), filePath)
  ELSE queryResult(filePath, Evaluate(doc.value, jsonPath))

\* queryJSON from os.ReadFile on.
queryRead(filePath, jsonPath, rf) ==
  IF rf.err # "nil"
  THEN DidRead(Response(StatusInternalServerError, rf.err), filePath)
  ELSE queryDecoded(filePath, jsonPath, Unmarshal(rf.data))

\* Mutant of queryStat: the extension of the resolved file is not checked.
queryStatAnyExt(f, filePath, jsonPath, st) ==
  IF st.err # "nil"
  THEN IF IsNotExist(st.err)
       THEN Resolved(Response(StatusNotFound, "File not found"), filePath)
       ELSE Resolved(Response(StatusInternalServerError, st.err), filePath)
  ELSE IF st.isDir
  THEN Resolved(Response(StatusBadRequest, "Cannot query directory"), filePath)
  ELSE queryRead(filePath, jsonPath, ReadFile(f, filePath))

\* queryJSON from the second os.Stat on.
queryStat(f, filePath, jsonPath, st) ==
  IF st.err # "nil"
  THEN IF IsNotExist(st.err)
       THEN Resolved(Response(StatusNotFound, "File not found"), filePath)
       ELSE Resolved(Response(StatusInternalServerError, st.err), filePath)
  ELSE IF st.isDir
  THEN Resolved(Response(StatusBadRequest, "Cannot query directory"), filePath)
  ELSE IF ToLower(Ext(filePath)) # ExtJson
  THEN Resolved(Response(StatusBadRequest, "File is not JSON"), filePath)
  ELSE queryRead(filePath, jsonPath, ReadFile(f, filePath))

\* queryJSON once resolvedPath is known.
queryResolved(f, filePath, jsonPath) ==
  IF filePath = <<>> THEN Response(StatusNotFound, "File not found")
  ELSE IF HasTraversalToken(filePath)
  THEN Resolved(Response(StatusBadRequest, "Invalid file path"), filePath)
  ELSE queryStat(f, filePath, jsonPath, Stat(f, filePath))

\* Mutant of queryJSONResp: only the file parameter is required.
queryJSONRespAnyPath(f, requestedFile, jsonPath, requestedDir) ==
  IF requestedFile = <<>>
  THEN Response(StatusBadRequest, "Missing file or path parameter")
  ELSE IF Getwd(f).err # "nil"
  THEN Response(StatusInternalServerError, Getwd(f).err)
  ELSE queryResolved(f, ResolvePath(f, requestedFile, requestedDir), jsonPath)

\* The response of queryJSON to GET /api/query/?file=&path=&dir=.
queryJSONResp(f, requestedFile, jsonPath, requestedDir) ==
  IF requestedFile = <<>> \/ jsonPath = <<>>
  THEN Response(StatusBadRequest, "Missing file or path parameter")
  ELSE IF Getwd(f).err # "nil"
  THEN Response(StatusInternalServerError, Getwd(f).err)
  ELSE queryResolved(f, ResolvePath(f, requestedFile, requestedDir), jsonPath)

(***************************************************************************)
(* Requests. The parameters are drawn from these sets.                     *)
(***************************************************************************)
\* The dir parameter of a listing request: the root ("" and "."), a
\* subdirectory by relative and by absolute path, the parent of the root,
\* a dependency directory, a file, a missing name, a path through a file.
ListDirs ==
  { <<>>, Dot, nD, AbsPath(<<nW, nD>>), DotDot, NodeModules, nA,
    <<"x">>, nA \o Slash \o nD }

\* The dir parameter of a content or query request.
Hints == { <<>>, Dot, nD, AbsPath(<<nW, nD>>), DotDot }

\* The file name of a content request: the URL path after /api/content/,
\* which the server's mux has cleaned (no "." or ".." elements reach the
\* handler).
ContentNames ==
  { nA, nADots, nTxt, nQ, nZ, nS, nX, nHidden, nD \o Slash \o nA, nD, <<>> }

\* The file parameter of a query request, taken from the query string as is.
QueryNames ==
  { nQ, nZ, nS, nA, nADots, nD \o Slash \o nQ, DotDot \o Slash \o nS, nD, <<>> }

\* The path parameter of a query request on the trees of Spec.
QueryPaths == { <<>>, <<"a">>, <<"a",".","b","[","1","]">> }

ListFiles(dir) ==
  /\ pc = "idle"
  /\ req' = [op |-> "list", file |-> <<>>, dir |-> dir, path |-> <<>>]
  /\ resp' = listFilesResp(fs, config, dir)
  /\ pc' = "done"
  /\ UNCHANGED <<fs, config, scan, conns, run, res>>

GetFileContent(file, dir) ==
  /\ pc = "idle"
  /\ req' = [op |-> "content", file |-> file, dir |-> dir, path |-> <<>>]
  /\ resp' = getFileContentResp(fs, config, file, dir)
  /\ pc' = "done"
  /\ UNCHANGED <<fs, config, scan, conns, run, res>>

QueryJSON(file, path, dir) ==
  /\ pc = "idle"
  /\ req' = [op |-> "query", file |-> file, dir |-> dir, path |-> path]
  /\ resp' = queryJSONResp(fs, file, path, dir)
  /\ pc' = "done"
  /\ UNCHANGED <<fs, config, scan, conns, run, res>>

\* The response is written and the server takes the next request.
NextRequest ==
  /\ pc = "done"
  /\ pc' = "idle"
  /\ req' = NoReq
  /\ resp' = NoResp
  /\ UNCHANGED <<fs, config, scan, conns, run, res>>

Init ==
  /\ fs \in Trees
  /\ scan = NoScan
  /\ conns = NoConns
  /\ run = NoRun
  /\ res = NoRes
  /\ config = InitialConfig
  /\ pc = "idle"
  /\ req = NoReq
  /\ resp = NoResp

Next ==
  \/ \E dir \in ListDirs : ListFiles(dir)
  \/ \E file \in ContentNames, dir \in Hints : GetFileContent(file, dir)
  \/ \E file \in QueryNames, path \in QueryPaths, dir \in Hints :
        QueryJSON(file, path, dir)
  \/ NextRequest

Spec == Init /\ [][Next]_vars

(***************************************************************************)
(* The evaluation of query paths on its own: the root holds one JSON file  *)
(* q.json with one of the documents below, queried with each path.         *)
(***************************************************************************)
EvalDocs ==
  { "{\"a\":1}", "5", "null", "\"s\"", "true", "[1,2]",
    "{\"a\":{\"b\":[1,2,3]}}", "{\"k[0]\":[1,2]}", "{\"a\":[[7,8]]}",
    "{\"\":3,\"a\":null}", "not json" }

EvalTree(data) ==
  [p \in {Slash, BaseDir, AbsPath(<<nW, nQ>>)} |->
     IF p = AbsPath(<<nW, nQ>>) THEN [kind |-> "file", data |-> data]
     ELSE [kind |-> "dir", data |-> ""]]

Br(ds) == <<"[">> \o ds \o <<"]">>
pAB == <<"a",".","b">>
Digits20 == [i \in 1..20 |-> "9"]
MinOverflowDigits ==
  <<"9","2","2","3","3","7","2","0","3","6","8","5","4","7","7","5","8","0","8">>

EvalPaths ==
  { <<"x">>, <<"x",".","y">>, <<"a">>, <<"a",".","x">>, pAB, <<"a",".">>,
    pAB \o Br(<<"1">>), pAB \o Br(<<"0">>), pAB \o Br(<<"5">>), pAB \o Br(<<"3">>),
    pAB \o Br(<<"0","1">>), pAB \o Br(<<"4","2","9","4","9","6","7","2","9","7">>),
    pAB \o Br(MaxInt64Digits), pAB \o Br(MinOverflowDigits), pAB \o Br(Digits20),
    pAB \o Br(<<"1">>) \o <<"x">>, pAB \o Br(<<"5">>) \o <<"x">>,
    pAB \o Br(<<"1">>) \o <<".","c">>,
    <<"k">> \o Br(<<"0">>) \o Br(<<"1">>), <<"a">> \o Br(<<"0">>) \o Br(<<"1">>),
    <<"a">> \o Br(<<"0">>), <<"a">> \o Br(<<"0">>) \o <<"x">>,
    Br(<<"0">>), Br(<<"2">>), Br(<<"0">>) \o <<"x">>, <<"x">> \o Br(<<"0">>),
    <<"k">> \o Br(<<"0">>),
    <<"a", "\n">> \o Br(<<"0">>), <<"a">> \o Br(<<"0">>) \o <<"\n", "x">>,
    Br(<<"0">>) \o <<"\n">> \o Br(<<"1">>), <<"\n">> \o Br(<<"1">>) }

InitEval ==
  /\ fs \in { EvalTree(d) : d \in EvalDocs }
  /\ scan = NoScan
  /\ conns = NoConns
  /\ run = NoRun
  /\ res = NoRes
  /\ config = InitialConfig
  /\ pc = "idle"
  /\ req = NoReq
  /\ resp = NoResp

NextEval ==
  \/ \E path \in EvalPaths : QueryJSON(nQ, path, <<>>)
  \/ NextRequest

SpecEval == InitEval /\ [][NextEval]_vars

(***************************************************************************)
(* Claims about path resolution and the traversal check (Spec).            *)
(***************************************************************************)
\* A request that ran the resolution code: every content request, and a
\* query request that passed the check of its parameters.
ResolutionRan ==
  /\ pc = "done"
  /\ \/ req.op = "content"
     \/ req.op = "query" /\ req.file # <<>> /\ req.path # <<>>

\* The path lies inside the tree of the working directory.
InsideRoot(path) == path = BaseDir \/ HasPrefix(path, BaseDir \o Slash)

\* C1: every file whose bytes the content endpoint returns or the query
\* endpoint parses lies inside the root directory tree.
C1_ServedInsideRoot ==
  (ResolutionRan /\ resp.read # <<>>) => InsideRoot(resp.read)

\* The node at the cleaned path p is a file.
IsFileAt(p) == p \in DOMAIN fs /\ fs[p].kind = "file"

\* The names of the immediate subdirectories of the root, ascending.
RootSubDirs ==
  SortNames({ BaseName(q) : q \in { c \in DOMAIN fs :
                c # Slash /\ ParentOf(c) = BaseDir /\ fs[c].kind = "dir" } })

\* The ordered candidate list the claim describes, each path cleaned.
ClaimedCandidates(name, hint) ==
  (IF hint # <<>> THEN <<Clean(BaseDir \o Slash \o hint \o Slash \o name)>> ELSE <<>>)
  \o <<Clean(BaseDir \o Slash \o name)>>
  \o (IF \A i \in 1..Len(name) : name[i] # "/"
      THEN [i \in 1..Len(RootSubDirs) |->
              Clean(BaseDir \o Slash \o RootSubDirs[i] \o Slash \o name)]
      ELSE <<>>)

FirstHit(c) ==
  IF \E i \in 1..Len(c) : IsFileAt(c[i])
  THEN c[CHOOSE i \in 1..Len(c) : IsFileAt(c[i]) /\ \A j \in 1..(i - 1) : ~IsFileAt(c[j])]
  ELSE <<>>

\* C2: the resolved path is the earliest candidate of the ordered list that
\* exists and is not a directory, and the request ends with 404 exactly when
\* no candidate is one.
C2_FirstMatchWins ==
  ResolutionRan =>
    /\ resp.resolved = FirstHit(ClaimedCandidates(req.file, req.dir))
    /\ (resp.status = StatusNotFound) = (FirstHit(ClaimedCandidates(req.file, req.dir)) = <<>>)

\* A name without separator, absent from the root, found one level down.
C2_Witness ==
  /\ ResolutionRan
  /\ req.file = nA /\ req.dir = <<>>
  /\ ~IsFileAt(AbsPath(<<nW, nA>>))
  /\ resp.resolved = AbsPath(<<nW, nD, nA>>)
  /\ resp.status = StatusOK

\* C3: when the resolved path string contains "..", the request ends with
\* 400 and no file bytes are read or returned; a success response is only
\* produced for a resolved path without "..".
C3_TraversalRejected ==
  ResolutionRan =>
    /\ Contains(resp.resolved, DotDot) =>
         /\ resp.status = StatusBadRequest
         /\ resp.read = <<>> /\ resp.data = "" /\ resp.value = JNull
    /\ resp.status = StatusOK => ~Contains(resp.resolved, DotDot)

C3_Witness ==
  /\ ResolutionRan
  /\ Contains(resp.resolved, DotDot)
  /\ resp.status = StatusBadRequest

(***************************************************************************)
(* Claims about the evaluation of query paths (SpecEval).                  *)
(***************************************************************************)
QFile == AbsPath(<<nW, nQ>>)

\* A query of q.json whose document decoded, so that the path was evaluated.
Evaluated ==
  /\ pc = "done" /\ req.op = "query"
  /\ QFile \in DOMAIN fs
  /\ resp.read = QFile
  /\ Unmarshal(fs[QFile].data).ok

\* The decoded document of an evaluated query.
QDoc == Unmarshal(fs[QFile].data).value

HasKey(obj, key) == \E i \in 1..Len(obj.kv) : obj.kv[i].k = key

pX == <<"x">>
pXY == <<"x", ".", "y">>

\* C4 as stated: on an object document without key x the path "x.y" gives
\* JSON null with a success response.
C4_MissingKeyChainNull ==
  (Evaluated /\ req.path = pXY /\ QDoc.t = "object" /\ ~HasKey(QDoc, pX)) =>
     (resp.status = StatusOK /\ resp.value = JNull)

\* C4 as amended: on an object document without key x the path "x" gives
\* JSON null with a success response, and the path "x.y" fails with 400,
\* because the null that "x" produced is not an object.
C4_MissingKeyNull ==
  (Evaluated /\ QDoc.t = "object" /\ ~HasKey(QDoc, pX)) =>
     /\ req.path = pX => (resp.status = StatusOK /\ resp.value = JNull
                          /\ resp.ctype = "application/json")
     /\ req.path = pXY => (resp.status = StatusBadRequest
                           /\ resp.msg = "Cannot access property - not an object")

C4_Witness ==
  /\ Evaluated /\ req.path = pX
  /\ QDoc.t = "object" /\ ~HasKey(QDoc, pX)
  /\ resp.status = StatusOK /\ resp.value = JNull

\* The part is a plain segment or an indexed segment with a non-empty key:
\* read as <key>[<index>]<rest>, it has no bracket group, or text before its
\* last one.
PlainOrKeyed(part) ==
  ~MatchLine(part).matched \/ MatchLine(part).objKey # <<>>

\* The running result when the k-th part is reached: the evaluation of the
\* parts before it.
RunningAt(parts, k) == EvalParts(QDoc, SubSeq(parts, 1, k - 1))

\* Some plain or keyed part is reached with a running result that is not an
\* object.
NonObjectAccess(parts) ==
  \E k \in 1..Len(parts) :
     /\ PlainOrKeyed(parts[k])
     /\ RunningAt(parts, k).status = StatusOK
     /\ RunningAt(parts, k).value.t # "object"

\* C5: when a plain or keyed segment is evaluated and the running result is
\* not an object, the query fails with 400 and returns no result value.
C5_NonObjectRejected ==
  (Evaluated /\ NonObjectAccess(Split(req.path, "."))) =>
     /\ resp.status = StatusBadRequest
     /\ resp.value = JNull /\ resp.ctype = ""

\* The path is a.b[ds] for a digit string ds.
IsIndexOfAB(path) ==
  /\ Len(path) >= 6
  /\ SubSeq(path, 1, 4) = pAB \o <<"[">>
  /\ Last(path) = "]"
  /\ \A i \in 5..(Len(path) - 1) : IsDigit(path[i])

WrittenIndex(path) == SubSeq(path, 5, Len(path) - 1)

\* The number the digits write is below n (n at most 10).
WrittenBelow(ds, n) ==
  Len(StripZeros(ds)) = 1 /\ DigitVal(StripZeros(ds)[1]) < n

ArrayOfAB == MapGet(MapGet(QDoc, <<"a">>), <<"b">>)

\* C6: a.b[idx] on an array of length n gives the element at idx exactly
\* when 0 <= idx < n and fails with 400 (index out of bounds) for every
\* written idx >= n, whatever the number of digits.
C6_IndexBounds ==
  (Evaluated /\ IsIndexOfAB(req.path) /\ ArrayOfAB.t = "array") =>
     IF WrittenBelow(WrittenIndex(req.path), Len(ArrayOfAB.kv))
     THEN /\ resp.status = StatusOK
          /\ resp.value =
               ArrayOfAB.kv[DigitVal(StripZeros(WrittenIndex(req.path))[1]) + 1].v
     ELSE /\ resp.status = StatusBadRequest
          /\ resp.msg = "Array index out of bounds"

\* The part has text after the closing bracket of one of its bracket groups.
TextAfterBracket(part) ==
  \E i \in 1..Len(part) :
     BracketAt(part, i) /\ i + 1 + DigitRun(part, i + 1) < Len(part)

\* C7: a path with a segment that has text after a closing bracket, chained
\* brackets included, never yields a success value: the query fails with 400.
C7_TextAfterBracketRejected ==
  (Evaluated /\ \E k \in 1..Len(Split(req.path, ".")) :
                    TextAfterBracket(Split(req.path, ".")[k])) =>
     resp.status = StatusBadRequest

(***************************************************************************)
(* Claims about the listing (Spec).                                        *)
(***************************************************************************)
\* A listing request that listFiles accepted.
Listed == pc = "done" /\ req.op = "list" /\ resp.status = StatusOK

\* The directory the dir parameter designates: the working directory when
\* empty, else the path itself or the path under the working directory.
ListedDir ==
  IF req.dir = <<>> THEN BaseDir
  ELSE IF IsAbs(req.dir) THEN Clean(req.dir)
  ELSE Clean(BaseDir \o Slash \o req.dir)

\* The nodes of the given kind directly inside dir.
ChildrenOf(dir, kind) ==
  { c \in DOMAIN fs : c # Slash /\ ParentOf(c) = dir /\ fs[c].kind = kind }

\* The listing has an entry of this name and kind.
HasEntry(name, isDir) ==
  \E i \in 1..Len(resp.entries) :
     resp.entries[i].name = name /\ resp.entries[i].isDir = isDir

\* The lower-cased extension of the name is ".md" or ".json".
AllowedName(name) == ToLower(Ext(name)) \in {ExtMd, ExtJson}

\* C8: for every non-directory entry e of an accepted listing of d, the
\* content request for e.path with hint d succeeds and returns the bytes of
\* the file d/e.name.
C8_ListedFilesResolve ==
  Listed =>
    \A i \in 1..Len(resp.entries) :
       ~resp.entries[i].isDir =>
          /\ getFileContentResp(fs, config, resp.entries[i].path, req.dir).status
               = StatusOK
          /\ getFileContentResp(fs, config, resp.entries[i].path, req.dir).read
               = Clean(ListedDir \o Slash \o resp.entries[i].name)

\* C9: a file directly inside the listed directory is listed exactly when
\* its name does not start with "." and its lower-cased extension is ".md"
\* or ".json"; every entry is a direct child of the listed directory and its
\* path is relative to it.
C9_FilesListed ==
  Listed =>
    /\ \A c \in ChildrenOf(ListedDir, "file") :
          HasEntry(BaseName(c), FALSE)
            = (~HasPrefix(BaseName(c), Dot) /\ AllowedName(BaseName(c)))
    /\ \A i \in 1..Len(resp.entries) :
          /\ resp.entries[i].path = resp.entries[i].name
          /\ Clean(ListedDir \o Slash \o resp.entries[i].path) \in DOMAIN fs
          /\ ParentOf(Clean(ListedDir \o Slash \o resp.entries[i].path)) = ListedDir

\* A listing that shows a file with an upper-case extension and hides a
\* hidden file beside it.
C9_Witness ==
  /\ Listed /\ req.dir = <<>>
  /\ AbsPath(<<nW, nZ>>) \in DOMAIN fs /\ HasEntry(nZ, FALSE)
  /\ AbsPath(<<nW, nHidden>>) \in DOMAIN fs /\ ~HasEntry(nHidden, FALSE)

\* C10: a subdirectory D of the listed directory is listed exactly when it
\* is not hidden, matches no build or dependency folder name (node_modules,
\* build, dist, or a path containing node_modules) and has a non-directory
\* child with an allowed extension directly inside it.
C10_DirsListed ==
  Listed =>
    \A c \in ChildrenOf(ListedDir, "dir") :
       HasEntry(BaseName(c), TRUE)
         = (/\ ~HasPrefix(BaseName(c), Dot)
            /\ BaseName(c) \notin {NodeModules, BuildName, DistName}
            /\ ~Contains(c, NodeModules)
            /\ \E g \in ChildrenOf(c, "file") : AllowedName(BaseName(g)))

\* A subdirectory whose only file lies two levels down is left out.
C10_Witness ==
  /\ Listed /\ req.dir = <<>>
  /\ AbsPath(<<nW, nD, nSub, nC>>) \in DOMAIN fs
  /\ ChildrenOf(AbsPath(<<nW, nD>>), "file") = {}
  /\ ~HasEntry(nD, TRUE)

(***************************************************************************)
(* Claims about the order and the errors of the handlers (Spec).           *)
(***************************************************************************)
\* C11: in every listing response all directory entries precede all file
\* entries, and within each group the names are in strictly ascending
\* byte-wise order (upper case before lower case).
C11_ListingSorted ==
  Listed =>
    \A i \in 1..Len(resp.entries), j \in 1..Len(resp.entries) :
       i < j =>
         /\ resp.entries[j].isDir => resp.entries[i].isDir
         /\ resp.entries[i].isDir = resp.entries[j].isDir
              => StrLess(resp.entries[i].name, resp.entries[j].name)

\* A listing that returns Z.JSON before a.md.
C11_Witness ==
  /\ Listed
  /\ Len(resp.entries) >= 2
  /\ resp.entries[1].name = nZ
  /\ resp.entries[2].name = nA

\* The node at the cleaned path p is a directory.
IsDirAt(p) == p \in DOMAIN fs /\ fs[p].kind = "dir"

\* The requested name of a content request designates a directory under the
\* root and none of the candidates is a regular file.
ContentNamesDirectory ==
  /\ pc = "done" /\ req.op = "content"
  /\ req.file # <<>>
  /\ IsDirAt(Clean(BaseDir \o Slash \o req.file))
  /\ FirstHit(ClaimedCandidates(req.file, req.dir)) = <<>>

\* C12: a content request whose requested name designates a directory ends
\* with 400 (directory requested), not with 404.
C12_DirectoryBadRequest ==
  ContentNamesDirectory => resp.status = StatusBadRequest

\* A content request that has been answered.
ContentDone == pc = "done" /\ req.op = "content"

\* C13: the content endpoint returns file bytes only when the lower-cased
\* extension of the resolved file is ".md" or ".json"; a resolved regular
\* file with another extension ends with 400 and is not read; on success the
\* content type is application/json for .json and text/plain for .md and the
\* bytes are those of the file.
C13_ContentByExtension ==
  ContentDone =>
    /\ (resp.read # <<>> \/ resp.data # "") => AllowedName(resp.resolved)
    /\ (IsFileAt(resp.resolved) /\ ~AllowedName(resp.resolved)) =>
         /\ resp.status = StatusBadRequest
         /\ resp.read = <<>> /\ resp.data = ""
    /\ resp.status = StatusOK =>
         /\ IsFileAt(resp.resolved)
         /\ resp.data = fs[resp.resolved].data
         /\ resp.ctype = (IF ToLower(Ext(resp.resolved)) = ExtJson
                          THEN "application/json" ELSE "text/plain")

\* A content request for b.txt is refused without a read.
C13_Witness ==
  /\ ContentDone
  /\ resp.resolved = AbsPath(<<nW, nTxt>>)
  /\ resp.status = StatusBadRequest
  /\ resp.read = <<>>

\* A query request that has been answered.
QueryDone == pc = "done" /\ req.op = "query"

\* The file of the request resolves to a regular file whose lower-cased
\* extension is not ".json".
ResolvesToNonJson ==
  /\ FirstHit(ClaimedCandidates(req.file, req.dir)) # <<>>
  /\ ToLower(Ext(FirstHit(ClaimedCandidates(req.file, req.dir)))) # ExtJson

\* C14: for every path parameter, a query request whose file resolves to a
\* regular file with a lower-cased extension other than ".json" ends with
\* 400, and the file is neither read nor parsed nor the path evaluated.
C14_NonJsonRejected ==
  (QueryDone /\ ResolvesToNonJson) =>
     /\ resp.status = StatusBadRequest
     /\ resp.read = <<>>
     /\ resp.value = JNull

\* A query of a.md with a non-empty path is refused as not JSON.
C14_Witness ==
  /\ QueryDone
  /\ req.path # <<>>
  /\ resp.resolved = AbsPath(<<nW, nA>>)
  /\ resp.status = StatusBadRequest
  /\ resp.msg = "File is not JSON"

\* The file at hit is a JSON file holding an object without the key "".
ObjectWithoutEmptyKey(hit) ==
  /\ IsFileAt(hit)
  /\ ToLower(Ext(hit)) = ExtJson
  /\ InsideRoot(hit)
  /\ Unmarshal(fs[hit].data).ok
  /\ Unmarshal(fs[hit].data).value.t = "object"
  /\ ~HasKey(Unmarshal(fs[hit].data).value, <<>>)

\* A query request with an empty path whose file resolves to such a file.
EmptyPathQuery ==
  /\ QueryDone
  /\ req.path = <<>>
  /\ ObjectWithoutEmptyKey(FirstHit(ClaimedCandidates(req.file, req.dir)))

\* C15 as stated: an empty path is evaluated as a lookup of the key "" on the
\* document, so an object document without that key gives null.
C15_EmptyPathLooksUpEmptyKey ==
  EmptyPathQuery => (resp.status = StatusOK /\ resp.value = JNull)

\* C15 as amended: a query request with an empty path is refused with 400
\* (missing parameter) before the file is resolved, read or evaluated.
C15_EmptyPathRejected ==
  (QueryDone /\ req.path = <<>>) =>
     /\ resp.status = StatusBadRequest
     /\ resp.msg = "Missing file or path parameter"
     /\ resp.resolved = <<>> /\ resp.read = <<>> /\ resp.value = JNull

\* An empty path on an existing JSON object file is refused.
C15_Witness ==
  /\ EmptyPathQuery
  /\ req.file = nZ
  /\ resp.status = StatusBadRequest

\* A listing request that has been answered.
ListDone == pc = "done" /\ req.op = "list"

\* C16: a listing request ends with 404 when the target directory does not
\* exist and with 400 when the target exists but is not a directory, in both
\* cases without entries; a target that is a directory never gives 404 or
\* 400.
C16_ListingTargetErrors ==
  ListDone =>
    /\ ListedDir \notin DOMAIN fs =>
         (resp.status = StatusNotFound /\ resp.entries = <<>>)
    /\ IsFileAt(ListedDir) =>
         (resp.status = StatusBadRequest /\ resp.entries = <<>>)
    /\ IsDirAt(ListedDir) =>
         resp.status \notin {StatusNotFound, StatusBadRequest}

(***************************************************************************)
(* listFiles followed call by call while children of the listed directory  *)
(* are removed (SpecList). os.ReadDir(rootDir) takes the names and kinds   *)
(* of the children once; os.Getwd, os.Stat, entry.Info() and the           *)
(* os.ReadDir of a subdirectory look at the filesystem as it is when they  *)
(* run. scan.phase is the call the handler is at.                          *)
(***************************************************************************)
MaxLost == 1

\* The local variables of listFiles at its first statement.
ScanStart == [NoScan EXCEPT !.phase = "getwd"]

\* listFiles from os.Getwd up to the choice of rootDir.
scanGetwd(sc, gw, requestedDir) ==
  IF gw.err # "nil"
  THEN [resp |-> Response(StatusInternalServerError, gw.err), scan |-> NoScan]
  ELSE [resp |-> NoResp,
        scan |-> [sc EXCEPT !.rootDir = ListRoot(requestedDir), !.phase = "stat"]]

\* The validation of rootDir.
scanValidated(sc, st) ==
  IF st.err # "nil"
  THEN IF IsNotExist(st.err)
       THEN [resp |-> Response(StatusNotFound, "Directory not found"), scan |-> NoScan]
       ELSE [resp |-> Response(StatusInternalServerError, st.err), scan |-> NoScan]
  ELSE IF ~st.isDir
  THEN [resp |-> Response(StatusBadRequest, "Not a directory"), scan |-> NoScan]
  ELSE [resp |-> NoResp, scan |-> [sc EXCEPT !.phase = "readdir"]]

\* os.ReadDir(rootDir): the entries the loop will go through.
scanEntries(sc, rd) ==
  IF rd.err # "nil"
  THEN [resp |-> Response(StatusInternalServerError, rd.err), scan |-> NoScan]
  ELSE [resp |-> NoResp, scan |-> [sc EXCEPT !.pending = rd.entries, !.phase = "info"]]

\* A continue of the loop for an entry that does not qualify.
SkipEntry(sc) == [sc EXCEPT !.pending = Tail(@), !.phase = "info"]

\* Mutant of InfoFailed: the loop is left when entry.Info() fails.
InfoFailedBreak(sc) == [sc EXCEPT !.pending = <<>>, !.phase = "info"]

\* The continue after entry.Info() failed: this entry alone is dropped.
InfoFailed(sc) == [sc EXCEPT !.pending = Tail(@), !.phase = "info"]

\* The end of the loop body: filepath.Rel and the append.
scanAppend(sc, entry, rel) ==
  IF ~rel.ok THEN SkipEntry(sc)
  ELSE [sc EXCEPT !.pending = Tail(@), !.phase = "info",
                  !.kept = Append(@, [name |-> entry.name, path |-> rel.path,
                                      isDir |-> entry.isDir])]

\* The loop body up to the check of a subdirectory.
scanInfo(f, cfg, sc, entry, entryPath) ==
  IF IsHidden(cfg, entry) \/ IsBuildDir(entry, entryPath) THEN SkipEntry(sc)
  ELSE IF Stat(f, entryPath).err # "nil" THEN InfoFailed(sc)
  ELSE IF ~FileKept(cfg, entry) THEN SkipEntry(sc)
  ELSE IF entry.isDir THEN [sc EXCEPT !.phase = "subdir"]
  ELSE scanAppend(sc, entry, Rel(sc.rootDir, entryPath))

\* The quick check of a subdirectory and the rest of the loop body.
scanSubdir(f, cfg, sc, entry, entryPath) ==
  IF ~HasRelevantFiles(f, cfg, entryPath) THEN SkipEntry(sc)
  ELSE scanAppend(sc, entry, Rel(sc.rootDir, entryPath))

\* The filesystem without the child name of directory dirPath and all that
\* lies below it.
WithoutChild(f, dirPath, name) ==
  [p \in { q \in DOMAIN f :
             /\ q # Clean(dirPath \o Slash \o name)
             /\ ~HasPrefix(q, Clean(dirPath \o Slash \o name) \o Slash) } |-> f[p]]

\* The mux hands a GET /api/files?dir= request to listFiles.
ListStart(dir) ==
  /\ pc = "idle"
  /\ req' = [op |-> "list", file |-> <<>>, dir |-> dir, path |-> <<>>]
  /\ pc' = "listing"
  /\ scan' = ScanStart
  /\ UNCHANGED <<fs, config, resp, conns, run, res>>

\* A statement before the loop: http.Error and return, or the next call.
ScanStep(out) ==
  /\ resp' = out.resp
  /\ scan' = out.scan
  /\ pc' = IF out.scan = NoScan THEN "done" ELSE "listing"

ScanGetwd ==
  /\ pc = "listing" /\ scan.phase = "getwd"
  /\ ScanStep(scanGetwd(scan, Getwd(fs), req.dir))
  /\ UNCHANGED <<fs, config, req, conns, run, res>>

ScanStat ==
  /\ pc = "listing" /\ scan.phase = "stat"
  /\ ScanStep(scanValidated(scan, Stat(fs, scan.rootDir)))
  /\ UNCHANGED <<fs, config, req, conns, run, res>>

ScanReadDir ==
  /\ pc = "listing" /\ scan.phase = "readdir"
  /\ ScanStep(scanEntries(scan, ReadDir(fs, scan.rootDir)))
  /\ UNCHANGED <<fs, config, req, conns, run, res>>

ScanInfo ==
  /\ pc = "listing" /\ scan.pending # <<>> /\ scan.phase = "info"
  /\ scan' = scanInfo(fs, config, scan, Head(scan.pending),
                      Join(<<scan.rootDir, Head(scan.pending).name>>))
  /\ UNCHANGED <<fs, config, pc, req, resp, conns, run, res>>

ScanSubdir ==
  /\ pc = "listing" /\ scan.pending # <<>> /\ scan.phase = "subdir"
  /\ scan' = scanSubdir(fs, config, scan, Head(scan.pending),
                        Join(<<scan.rootDir, Head(scan.pending).name>>))
  /\ UNCHANGED <<fs, config, pc, req, resp, conns, run, res>>

\* The sort and the response after the loop.
ScanEnd ==
  /\ pc = "listing" /\ scan.pending = <<>> /\ scan.phase = "info"
  /\ resp' = [Response(StatusOK, "") EXCEPT
                !.ctype = "application/json", !.entries = SortFiles(scan.kept)]
  /\ pc' = "done"
  /\ UNCHANGED <<fs, config, req, scan, conns, run, res>>

\* Another process removes a child of the directory the request names while
\* the handler runs.
RemoveChild(name) ==
  /\ pc = "listing"
  /\ Cardinality(scan.lost) < MaxLost
  /\ name \in ChildNames(fs, Clean(ListRoot(req.dir)))
  /\ fs' = WithoutChild(fs, Clean(ListRoot(req.dir)), name)
  /\ scan' = [scan EXCEPT !.lost = @ \cup {name}]
  /\ UNCHANGED <<config, pc, req, resp, conns, run, res>>

ScanNext ==
  /\ pc = "done"
  /\ pc' = "idle"
  /\ req' = NoReq
  /\ resp' = NoResp
  /\ scan' = NoScan
  /\ UNCHANGED <<fs, config, conns, run, res>>

NextList ==
  \/ \E dir \in ListDirs : ListStart(dir)
  \/ ScanGetwd
  \/ ScanStat
  \/ ScanReadDir
  \/ ScanInfo
  \/ ScanSubdir
  \/ ScanEnd
  \/ \E name \in {nA, nZ, nD, nTxt, nW} : RemoveChild(name)
  \/ ScanNext

SpecList == Init /\ [][NextList]_vars

(***************************************************************************)
(* Claim about failures of single children during a listing (SpecList).    *)
(***************************************************************************)
\* The file at path c qualifies for a listing of its directory.
FileQualifies(c) == ~HasPrefix(BaseName(c), Dot) /\ AllowedName(BaseName(c))

\* The directory at path c qualifies for a listing of its parent.
DirQualifies(c) ==
  /\ ~HasPrefix(BaseName(c), Dot)
  /\ BaseName(c) \notin {NodeModules, BuildName, DistName}
  /\ ~Contains(c, NodeModules)
  /\ \E g \in ChildrenOf(c, "file") : AllowedName(BaseName(g))

\* A listing whose loop ran to its end.
ScanDone == pc = "done" /\ req.op = "list" /\ scan.phase # "none"

\* C17: a failure concerning one child during the listing (here: the child
\* was removed while the loop ran) only drops that child: the listing
\* succeeds and holds exactly the qualifying ones among the other children.
C17_ChildFailureDropsChild ==
  ScanDone =>
    /\ resp.status = StatusOK
    /\ \A c \in ChildrenOf(ListedDir, "file") :
          BaseName(c) \notin scan.lost =>
             HasEntry(BaseName(c), FALSE) = FileQualifies(c)
    /\ \A c \in ChildrenOf(ListedDir, "dir") :
          BaseName(c) \notin scan.lost =>
             HasEntry(BaseName(c), TRUE) = DirQualifies(c)

\* Z.JSON was removed before its turn and is missing; a.md is listed.
C17_Witness ==
  /\ ScanDone
  /\ req.dir = <<>>
  /\ scan.lost = {nZ}
  /\ ~HasEntry(nZ, FALSE)
  /\ HasEntry(nA, FALSE)
  /\ resp.status = StatusOK

(***************************************************************************)
(* getFileContent and queryJSON followed statement by statement            *)
(* (SpecSteps). run.pos is the statement the handler is at, run.writes the *)
(* number of responses written (http.Error or w.Write), run.late the       *)
(* number of filesystem calls made after a response was written; resp is   *)
(* the first response written, the one the client gets. res holds the      *)
(* local variables of the path resolution: the candidates not yet tried    *)
(* and resolvedPath. Every step makes at most one call to the filesystem.  *)
(***************************************************************************)
\* Mutant of ErrorReturn: the handler goes on after http.Error.
ErrorFallsThrough(next) == next

\* The return that follows every http.Error: the handler ends.
ErrorReturn(next) == "end"

\* The handler's variables at its first statement.
StartRun(pos) == [NoRun EXCEPT !.pos = pos]

\* A call of os.Getwd, os.Stat, os.ReadDir or os.ReadFile by the handler.
Touch(r) == [r EXCEPT !.late = @ + (IF r.writes > 0 THEN 1 ELSE 0)]

\* http.Error(w, ...) followed by return.
Failed(r, next, response) ==
  /\ run' = [r EXCEPT !.pos = ErrorReturn(next), !.writes = @ + 1]
  /\ resp' = IF r.writes = 0 THEN response ELSE resp

\* The statement passed without an error.
Passed(r, next) ==
  /\ run' = [r EXCEPT !.pos = next]
  /\ resp' = resp

Running(pos) == pc = "running" /\ run.pos = pos

\* The mux hands a GET /api/content/ request to getFileContent.
StartContent(file, dir) ==
  /\ pc = "idle"
  /\ req' = [op |-> "content", file |-> file, dir |-> dir, path |-> <<>>]
  /\ pc' = "running"
  /\ run' = StartRun("getwd")
  /\ UNCHANGED <<fs, config, resp, scan, conns, res>>

\* The mux hands a GET /api/query/ request to queryJSON.
StartQuery(file, path, dir) ==
  /\ pc = "idle"
  /\ req' = [op |-> "query", file |-> file, dir |-> dir, path |-> path]
  /\ pc' = "running"
  /\ run' = StartRun("params")
  /\ UNCHANGED <<fs, config, resp, scan, conns, res>>

\* queryJSON: both parameters are required.
CheckParams ==
  /\ Running("params")
  /\ IF req.file = <<>> \/ req.path = <<>>
     THEN Failed(run, "getwd",
                 Response(StatusBadRequest, "Missing file or path parameter"))
     ELSE Passed(run, "getwd")
  /\ UNCHANGED <<fs, config, pc, req, scan, conns, res>>

\* baseDir, err := os.Getwd() and the check of err.
getwdStep(r, gw) ==
  IF gw.err # "nil"
  THEN Failed(r, "paths", Response(StatusInternalServerError, gw.err))
  ELSE Passed(r, "paths")

GetwdStep ==
  /\ Running("getwd")
  /\ getwdStep(Touch(run), Getwd(fs))
  /\ UNCHANGED <<fs, config, pc, req, scan, conns, res>>

\* The local variables of the resolution once filePaths is built.
ResOf(r, paths) == [r EXCEPT !.phase = "loop", !.paths = paths]

\* filePaths is built; os.ReadDir(baseDir) is called for a name without a
\* separator.
BuildPaths ==
  /\ Running("paths")
  /\ res' = ResOf(res, FilePaths(fs, req.file, req.dir))
  /\ Passed(IF Contains(req.file, Slash) THEN run ELSE Touch(run), "loop")
  /\ UNCHANGED <<fs, config, pc, req, scan, conns>>

\* One turn of the loop over filePaths: break on a match.
loopStep(r, matches) ==
  IF matches
  THEN [r EXCEPT !.phase = "retry", !.first = Head(r.paths),
                 !.resolved = Head(r.paths), !.paths = <<>>]
  ELSE [r EXCEPT !.paths = Tail(@)]

\* os.Stat on the next candidate.
LoopStat ==
  /\ Running("loop") /\ res.paths # <<>>
  /\ res' = loopStep(res, Matches(fs, Head(res.paths)))
  /\ Passed(Touch(run), loopStep(res, Matches(fs, Head(res.paths))).phase)
  /\ UNCHANGED <<fs, config, pc, req, scan, conns>>

\* The loop ran through filePaths without a match.
LoopEnd ==
  /\ Running("loop") /\ res.paths = <<>>
  /\ res' = [res EXCEPT !.phase = "retry"]
  /\ Passed(run, "retry")
  /\ UNCHANGED <<fs, config, pc, req, scan, conns>>

\* The retry after the loop and what it set resolvedPath to.
retryStep(r, requestedFile, resolved) ==
  [r EXCEPT !.phase = "check",
            !.retried = (r.resolved = <<>> /\ Contains(requestedFile, Slash)),
            !.byRetry = (resolved # r.resolved),
            !.resolved = resolved]

\* The retry calls os.Stat when nothing is resolved and the name has a
\* separator.
RetryStat ==
  /\ Running("retry")
  /\ res' = retryStep(res, req.file,
                      RetryFullPath(fs, req.file, res.resolved,
                                    Join(<<BaseDir, req.file>>)))
  /\ Passed(IF res.resolved = <<>> /\ Contains(req.file, Slash)
            THEN Touch(run) ELSE run, "check")
  /\ UNCHANGED <<fs, config, pc, req, scan, conns>>

\* The check of resolvedPath after the resolution.
resolveStep(r, filePath) ==
  IF filePath = <<>>
  THEN Failed(r, "traversal", Response(StatusNotFound, "File not found"))
  ELSE Passed([r EXCEPT !.filePath = filePath], "traversal")

CheckResolved ==
  /\ Running("check")
  /\ resolveStep(run, res.resolved)
  /\ res' = [res EXCEPT !.phase = "done"]
  /\ UNCHANGED <<fs, config, pc, req, scan, conns>>

CheckTraversal ==
  /\ Running("traversal")
  /\ IF HasTraversalToken(run.filePath)
     THEN Failed(run, "stat",
                 Resolved(Response(StatusBadRequest, "Invalid file path"), run.filePath))
     ELSE Passed(run, "stat")
  /\ UNCHANGED <<fs, config, pc, req, scan, conns, res>>

\* The second os.Stat, on the resolved path.
statStep(r, st) ==
  IF st.err # "nil"
  THEN Failed(r, "isdir",
              IF IsNotExist(st.err)
              THEN Resolved(Response(StatusNotFound, "File not found"), r.filePath)
              ELSE Resolved(Response(StatusInternalServerError, st.err), r.filePath))
  ELSE Passed([r EXCEPT !.isDir = st.isDir], "isdir")

StatResolved ==
  /\ Running("stat")
  /\ statStep(Touch(run), Stat(fs, run.filePath))
  /\ UNCHANGED <<fs, config, pc, req, scan, conns, res>>

CheckDir ==
  /\ Running("isdir")
  /\ IF run.isDir
     THEN Failed(run, "ext",
                 Resolved(Response(StatusBadRequest,
                                   IF req.op = "content"
                                   THEN "Cannot display directory content"
                                   ELSE "Cannot query directory"), run.filePath))
     ELSE Passed(run, "ext")
  /\ UNCHANGED <<fs, config, pc, req, scan, conns, res>>

\* The extension check of the handler: the allowed extensions for content,
\* ".json" for a query.
ExtRefused(cfg, op, ext) ==
  IF op = "content" THEN ~IsAllowedExt(cfg, ext) ELSE ext # ExtJson

CheckExt ==
  /\ Running("ext")
  /\ IF ExtRefused(config, req.op, ToLower(Ext(run.filePath)))
     THEN Failed(run, "read",
                 Resolved(Response(StatusBadRequest,
                                   IF req.op = "content"
                                   THEN "Unsupported file type"
                                   ELSE "File is not JSON"), run.filePath))
     ELSE Passed(run, "read")
  /\ UNCHANGED <<fs, config, pc, req, scan, conns, res>>

\* os.ReadFile(filePath); a content handler writes next, a query decodes.
readStep(r, rf, next) ==
  IF rf.err # "nil"
  THEN Failed(r, next, DidRead(Response(StatusInternalServerError, rf.err), r.filePath))
  ELSE Passed([r EXCEPT !.data = rf.data], next)

ReadResolved ==
  /\ Running("read")
  /\ readStep(Touch(run), ReadFile(fs, run.filePath),
              IF req.op = "content" THEN "write" ELSE "decode")
  /\ UNCHANGED <<fs, config, pc, req, scan, conns, res>>

\* json.Unmarshal and the split of the path.
decodeStep(r, doc, parts) ==
  IF ~doc.ok
  THEN Failed([r EXCEPT !.parts = parts], "eval",
              DidRead(Response(StatusBadRequest, "Invalid JSON"), r.filePath))
  ELSE Passed([r EXCEPT !.result = doc.value, !.parts = parts], "eval")

Decode ==
  /\ Running("decode")
  /\ decodeStep(run, Unmarshal(run.data), Split(req.path, "."))
  /\ UNCHANGED <<fs, config, pc, req, scan, conns, res>>

\* One turn of the loop over the parts of the path.
evalStep(r, ev) ==
  IF ev.status # StatusOK
  THEN Failed([r EXCEPT !.parts = Tail(@)], "eval",
              DidRead(Response(ev.status, ev.msg), r.filePath))
  ELSE Passed([r EXCEPT !.result = ev.value, !.parts = Tail(@)], "eval")

EvalNext ==
  /\ Running("eval")
  /\ IF run.parts = <<>> THEN Passed(run, "write")
     ELSE evalStep(run, EvalPart(run.result, Head(run.parts)))
  /\ UNCHANGED <<fs, config, pc, req, scan, conns, res>>

\* The success response: the file bytes, or the encoded result.
SuccessBody(r, op) ==
  IF op = "content"
  THEN DidRead([Response(StatusOK, "") EXCEPT
                  !.ctype = ContentType(ToLower(Ext(r.filePath))),
                  !.data = r.data], r.filePath)
  ELSE DidRead([Response(StatusOK, "") EXCEPT
                  !.ctype = "application/json", !.value = r.result], r.filePath)

WriteBody ==
  /\ Running("write")
  /\ run' = [run EXCEPT !.pos = "end", !.writes = @ + 1]
  /\ resp' = IF run.writes = 0 THEN SuccessBody(run, req.op) ELSE resp
  /\ UNCHANGED <<fs, config, pc, req, scan, conns, res>>

\* The handler returns.
Return ==
  /\ Running("end")
  /\ pc' = "done"
  /\ UNCHANGED <<fs, config, req, resp, scan, conns, run, res>>

StepNext ==
  /\ pc = "done"
  /\ pc' = "idle"
  /\ req' = NoReq
  /\ resp' = NoResp
  /\ run' = NoRun
  /\ res' = NoRes
  /\ UNCHANGED <<fs, config, scan, conns>>

NextSteps ==
  \/ \E file \in ContentNames, dir \in Hints : StartContent(file, dir)
  \/ \E file \in QueryNames, path \in QueryPaths, dir \in Hints :
        StartQuery(file, path, dir)
  \/ CheckParams
  \/ GetwdStep
  \/ BuildPaths
  \/ LoopStat
  \/ LoopEnd
  \/ RetryStat
  \/ CheckResolved
  \/ CheckTraversal
  \/ StatResolved
  \/ CheckDir
  \/ CheckExt
  \/ ReadResolved
  \/ Decode
  \/ EvalNext
  \/ WriteBody
  \/ Return
  \/ StepNext

\* The filesystems the handlers are followed on: the trees, and those left
\* when the working directory was removed after the server had started.
StepTrees == Trees \cup { WithoutChild(f, Slash, nW) : f \in Trees }

InitSteps ==
  /\ fs \in StepTrees
  /\ config = InitialConfig
  /\ pc = "idle"
  /\ req = NoReq
  /\ resp = NoResp
  /\ scan = NoScan
  /\ conns = NoConns
  /\ run = NoRun
  /\ res = NoRes

SpecSteps == InitSteps /\ [][NextSteps]_vars

(***************************************************************************)
(* Claim about the end of a request after an error (SpecSteps).            *)
(***************************************************************************)
\* C19: once a handler has written an error it makes no further filesystem
\* call and writes nothing more, so every request ends with exactly one
\* response, an error or a success body.
C19_FailureIsTerminal ==
  /\ run.late = 0
  /\ run.writes <= 1
  /\ (pc = "done" /\ req.op \in {"content", "query"}) =>
        /\ run.writes = 1
        /\ resp.status # 0
        /\ (resp.status # StatusOK) =>
              (resp.data = "" /\ resp.value = JNull)

\* A content request that failed at the traversal check, before the second
\* os.Stat and the read, and a handler that returned with that one error.
C19_Witness ==
  /\ pc = "done" /\ req.op = "content"
  /\ resp.status = StatusBadRequest
  /\ resp.msg = "Invalid file path"
  /\ run.writes = 1 /\ run.late = 0

(***************************************************************************)
(* Claim about the one-level fallback of the resolution (Spec).            *)
(***************************************************************************)
\* The names of the immediate subdirectories of the root that hold a regular
\* file called name.
SubDirsHolding(name) ==
  { BaseName(c) : c \in { q \in ChildrenOf(BaseDir, "dir") :
                            IsFileAt(Clean(q \o Slash \o name)) } }

\* A separator-free name for which neither root/hint/name nor root/name is a
\* regular file.
FallbackOnly ==
  /\ ResolutionRan
  /\ req.file # <<>>
  /\ \A i \in 1..Len(req.file) : req.file[i] # "/"
  /\ ~IsFileAt(Clean(BaseDir \o Slash \o req.file))
  /\ req.dir # <<>> => ~IsFileAt(Clean(BaseDir \o Slash \o req.dir \o Slash \o req.file))

\* C20: when only copies in immediate subdirectories of the root exist, the
\* resolution returns the copy in the subdirectory whose name is first in
\* ascending order, every subdirectory counting, hidden ones and
\* node_modules, build and dist included.
C20_FirstSubdirWins ==
  (FallbackOnly /\ SubDirsHolding(req.file) # {}) =>
     resp.resolved =
        Clean(BaseDir \o Slash \o PickMin(SubDirsHolding(req.file)) \o Slash \o req.file)

\* a.md lies in .g and in d; the hidden .g comes first and wins.
C20_Witness ==
  /\ FallbackOnly
  /\ req.file = nA
  /\ SubDirsHolding(nA) = {nG, nD}
  /\ resp.resolved = AbsPath(<<nW, nG, nA>>)
  /\ resp.status = StatusOK

(***************************************************************************)
(* Claim about the subdirectories a listing shows (Spec).                  *)
(***************************************************************************)
\* The dir parameter that designates the entry of a listing of dir.
EntryDir(dir, path) == IF dir = <<>> THEN path ELSE dir \o Slash \o path

\* C21: every directory entry of a listing is non-empty when it is listed
\* itself on the same filesystem.
C21_ListedDirsNonEmpty ==
  Listed =>
    \A i \in 1..Len(resp.entries) :
       resp.entries[i].isDir =>
          /\ listFilesResp(fs, config, EntryDir(req.dir, resp.entries[i].path)).status
               = StatusOK
          /\ listFilesResp(fs, config, EntryDir(req.dir, resp.entries[i].path)).entries
               # <<>>

(***************************************************************************)
(* getFileContent followed call by call while files appear (SpecRetry):    *)
(* another process may create a file between any two calls the handler     *)
(* makes, between two status checks of the resolution as well as between   *)
(* the second os.Stat and os.ReadFile.                                     *)
(***************************************************************************)
MaxCreated == 1

\* The names requested and the dir parameters sent.
RetryNames == { nD \o Slash \o nA, nD \o Slash \o nQ, nA }
RetryHints == { <<>>, nD }

\* The files another process may create during a request.
Creatable == { AbsPath(<<nW, nD, nA>>), AbsPath(<<nW, nA>>) }

\* The filesystem with a new regular file at path.
WithFile(f, path) ==
  [p \in DOMAIN f \cup {path} |->
     IF p = path THEN [kind |-> "file", data |-> "# new"] ELSE f[p]]

\* Another process creates a regular file in an existing directory.
CreateFile(path) ==
  /\ pc = "running"
  /\ Cardinality(res.created) < MaxCreated
  /\ path \notin DOMAIN fs
  /\ ParentOf(path) \in DOMAIN fs /\ fs[ParentOf(path)].kind = "dir"
  /\ fs' = WithFile(fs, path)
  /\ res' = [res EXCEPT !.created = @ \cup {path}]
  /\ UNCHANGED <<config, pc, req, resp, scan, conns, run>>

NextRetry ==
  \/ \E file \in RetryNames, dir \in RetryHints : StartContent(file, dir)
  \/ GetwdStep
  \/ BuildPaths
  \/ LoopStat
  \/ LoopEnd
  \/ RetryStat
  \/ CheckResolved
  \/ CheckTraversal
  \/ StatResolved
  \/ CheckDir
  \/ CheckExt
  \/ ReadResolved
  \/ WriteBody
  \/ Return
  \/ \E path \in Creatable : CreateFile(path)
  \/ StepNext

SpecRetry == Init /\ [][NextRetry]_vars

(***************************************************************************)
(* Claim about the retry of the resolution (SpecRetry).                    *)
(***************************************************************************)
\* A request whose resolution has run to its end.
RetryDone == pc = "done" /\ res.phase = "done"

\* C22: on a filesystem that does not change during the request the retry
\* of root/name never changes the outcome: the resolved path is the one the
\* candidate loop found, and when the loop found none the request ends with
\* 404; the retry sets the path only to a file that appeared during the
\* request.
C22_RetryChangesNothing ==
  RetryDone =>
    /\ res.created = {} =>
         /\ ~res.byRetry
         /\ res.resolved = res.first
         /\ res.resolved = FirstMatch(fs, FilePaths(fs, req.file, req.dir))
         /\ res.first = <<>> => resp.status = StatusNotFound
    /\ res.byRetry => Clean(res.resolved) \in res.created

\* The loop found nothing for d/a.md on an unchanged filesystem with d in
\* it, the retry ran, and the request ended with 404.
C22_Witness ==
  /\ RetryDone
  /\ req.file = nD \o Slash \o nA
  /\ IsDirAt(AbsPath(<<nW, nD>>))
  /\ res.created = {}
  /\ res.retried
  /\ res.first = <<>>
  /\ resp.status = StatusNotFound

(***************************************************************************)
(* Requests served at the same time (SpecConc): net/http runs each handler *)
(* in a goroutine of its own; the handlers share the global config, the    *)
(* working directory and the filesystem. pc, req, resp, scan, run and res  *)
(* are the local variables of the goroutine that runs, conns.parked holds  *)
(* those of the goroutines that wait, and the scheduler may switch between *)
(* any two calls a handler makes.                                          *)
(***************************************************************************)
Conns == {1, 2}

\* The local variables of the goroutine that runs.
Locals ==
  [pc |-> pc, req |-> req, resp |-> resp, scan |-> scan, run |-> run, res |-> res]

\* The local variables of a goroutine that serves no request.
IdleLocals ==
  [pc |-> "idle", req |-> NoReq, resp |-> NoResp, scan |-> NoScan,
   run |-> NoRun, res |-> NoRes]

\* The requests sent on the connections.
ConcRequests ==
  { [op |-> "list", file |-> <<>>, dir |-> <<>>, path |-> <<>>],
    [op |-> "list", file |-> <<>>, dir |-> nD, path |-> <<>>],
    [op |-> "content", file |-> nA, dir |-> <<>>, path |-> <<>>],
    [op |-> "content", file |-> nTxt, dir |-> <<>>, path |-> <<>>],
    [op |-> "query", file |-> nZ, dir |-> <<>>, path |-> <<"a">>] }

\* The trees the requests are served on: a.md with .h.md, .h.md with Z.JSON,
\* b.txt with d/a.md, Z.JSON with d/q.json, .h.md with d/.h.md.
ConcTrees == { FsOf(S) : S \in { {1, 3}, {3, 5}, {4, 6}, {5, 8}, {3, 7} } }

\* The handler the mux runs for the request, and what it writes.
HandlerResp(f, cfg, r) ==
  CASE r.op = "list" -> listFilesResp(f, cfg, r.dir)
    [] r.op = "content" -> getFileContentResp(f, cfg, r.file, r.dir)
    [] r.op = "query" -> queryJSONResp(f, r.file, r.path, r.dir)

\* Mutant of ConfigAfter: listFiles switches IgnoreHidden off.
ConfigAfterListing(cfg, r) ==
  IF r.op = "list" THEN [cfg EXCEPT !.IgnoreHidden = FALSE] ELSE cfg

\* The global config after a handler ran: no handler assigns to it.
ConfigAfter(cfg, r) == cfg

\* The mux starts the handler of a request on the goroutine that runs.
Accept(r) ==
  \/ r.op = "list" /\ ListStart(r.dir)
  \/ r.op = "content" /\ StartContent(r.file, r.dir)
  \/ r.op = "query" /\ StartQuery(r.file, r.path, r.dir)

\* The scheduler lets the goroutine of connection c run and parks the one
\* that ran.
Switch(c) ==
  /\ c # conns.on
  /\ conns' = [on |-> c,
               parked |-> [conns.parked EXCEPT ![conns.on] = Locals,
                                               ![c] = IdleLocals]]
  /\ pc' = conns.parked[c].pc
  /\ req' = conns.parked[c].req
  /\ resp' = conns.parked[c].resp
  /\ scan' = conns.parked[c].scan
  /\ run' = conns.parked[c].run
  /\ res' = conns.parked[c].res
  /\ UNCHANGED <<fs, config>>

\* The handler has returned and the response is sent: the goroutine is free
\* for the next request.
Close ==
  /\ pc = "done"
  /\ config' = ConfigAfter(config, req)
  /\ pc' = "idle"
  /\ req' = NoReq
  /\ resp' = NoResp
  /\ scan' = NoScan
  /\ run' = NoRun
  /\ res' = NoRes
  /\ UNCHANGED <<fs, conns>>

InitConc ==
  /\ fs \in ConcTrees
  /\ config = InitialConfig
  /\ pc = "idle"
  /\ req = NoReq
  /\ resp = NoResp
  /\ scan = NoScan
  /\ conns = [on |-> 1, parked |-> [c \in Conns |-> IdleLocals]]
  /\ run = NoRun
  /\ res = NoRes

NextConc ==
  \/ \E r \in ConcRequests : Accept(r)
  \/ \E c \in Conns : Switch(c)
  \/ ScanGetwd
  \/ ScanStat
  \/ ScanReadDir
  \/ ScanInfo
  \/ ScanSubdir
  \/ ScanEnd
  \/ CheckParams
  \/ GetwdStep
  \/ BuildPaths
  \/ LoopStat
  \/ LoopEnd
  \/ RetryStat
  \/ CheckResolved
  \/ CheckTraversal
  \/ StatResolved
  \/ CheckDir
  \/ CheckExt
  \/ ReadResolved
  \/ Decode
  \/ EvalNext
  \/ WriteBody
  \/ Return
  \/ Close

SpecConc == InitConc /\ [][NextConc]_vars

(***************************************************************************)
(* Claim about the independence of requests (SpecConc).                    *)
(***************************************************************************)
\* C18: no handler changes the config or any state another request sees, so
\* under every interleaving of the handlers' calls each request that has
\* been answered has the response it gets when it runs alone on the same
\* filesystem.
C18_RequestsIndependent ==
  /\ config = InitialConfig
  /\ pc = "done" => resp = HandlerResp(fs, InitialConfig, req)
  /\ \A c \in Conns :
        conns.parked[c].pc = "done" =>
           conns.parked[c].resp = HandlerResp(fs, InitialConfig, conns.parked[c].req)

\* A listing answered with the hidden file left out while the handler of a
\* second listing, started before, waits in the middle of its loop.
C18_Witness ==
  /\ pc = "done" /\ req.op = "list" /\ req.dir = <<>>
  /\ AbsPath(<<nW, nHidden>>) \in DOMAIN fs
  /\ AbsPath(<<nW, nA>>) \in DOMAIN fs
  /\ resp.status = StatusOK /\ Len(resp.entries) = 1
  /\ \E c \in Conns :
        /\ c # conns.on
        /\ conns.parked[c].pc = "listing"
        /\ conns.parked[c].scan.phase = "info"
        /\ conns.parked[c].scan.kept # <<>>

====
